---- MODULE Spec2Model ----
(***************************************************************************)
(* Model of update_all_podcast_details.py: the resolution-and-enrichment   *)
(* pipeline (fuzzy two-strategy search, detail lookup with URL fallback,   *)
(* episode statistics, INSERT OR REPLACE writer) and the driver loop that  *)
(* sequences them over the distinct chart titles.                          *)
(*                                                                         *)
(* Titles compared by the fuzzy match are sequences of character codes:    *)
(* 1..9 are lower-case letters and 11..19 the same letters in upper case.  *)
(* JSON null / a missing key is the value None (NoStr for a string).       *)
(***************************************************************************)
EXTENDS Integers, Sequences, FiniteSets, TLC

----------------------------------------------------------------------------
(* Bounds of the model *)

\* longest result list a search response carries (the code asks for max 10)
MaxResults == 2
\* longest episode list a response carries (the code asks for max 10)
MaxEpisodes == 3
\* longest list of distinct chart titles read from Top100Lists
MaxTitles == 2

\* JSON null, or a key the payload does not carry
None == 0 - 1

\* a missing or null string field
NoStr == "None"

----------------------------------------------------------------------------
(* str.lower() and difflib.SequenceMatcher(None, a, b).ratio()             *)

LowerChar(c) == IF c > 10 THEN c - 10 ELSE c

Lower(s) == [i \in 1..Len(s) |-> LowerChar(s[i])]

\* length of the common run of a from i and b from j, inside [.., ahi] x [.., bhi]
RECURSIVE RunLen(_, _, _, _, _, _)
RunLen(a, b, i, j, ahi, bhi) ==
    IF i > ahi \/ j > bhi \/ a[i] # b[j] THEN 0
    ELSE 1 + RunLen(a, b, i + 1, j + 1, ahi, bhi)

\* find_longest_match: the longest block a[i..i+k) = b[j..j+k) within
\* a[alo..ahi], b[blo..bhi]; of the longest ones the earliest in a, then in b
FindLongestMatch(a, b, alo, ahi, blo, bhi) ==
    LET cand == {<<i, j>> \in (alo..ahi) \X (blo..bhi) : TRUE}
        len(p) == RunLen(a, b, p[1], p[2], ahi, bhi)
        best == CHOOSE p \in cand :
                  \A q \in cand :
                     \/ len(p) > len(q)
                     \/ /\ len(p) = len(q)
                        /\ \/ p[1] < q[1]
                           \/ p[1] = q[1] /\ p[2] <= q[2]
    IN  IF cand = {} THEN <<alo, blo, 0>>
        ELSE <<best[1], best[2], len(best)>>

\* get_matching_blocks: total size of the blocks found by recursing to the
\* left and to the right of the longest match
RECURSIVE Matches(_, _, _, _, _, _)
Matches(a, b, alo, ahi, blo, bhi) ==
    LET m == FindLongestMatch(a, b, alo, ahi, blo, bhi)
    IN  IF m[3] = 0 THEN 0
        ELSE m[3]
             + Matches(a, b, alo, m[1] - 1, blo, m[2] - 1)
             + Matches(a, b, m[1] + m[3], ahi, m[2] + m[3], bhi)

\* ratio() = 2.0 * matches / (len(a) + len(b)), 1.0 for two empty strings;
\* kept as the exact fraction <<numerator, denominator>>
Ratio(a, b) ==
    IF Len(a) + Len(b) = 0 THEN <<1, 1>>
    ELSE <<2 * Matches(a, b, 1, Len(a), 1, Len(b)), Len(a) + Len(b)>>

\* r > s and r >= s on fractions with positive denominators
RatioGT(r, s) == r[1] * s[2] > s[1] * r[2]

RatioGE(r, s) == r[1] * s[2] >= s[1] * r[2]

----------------------------------------------------------------------------
(* Python truthiness of the values the payloads carry *)

\* `if x:` on an id: None and 0 are falsy
TruthyId(x) == x # None /\ x # 0

\* `if x:` on a string field: None and "" are falsy
TruthyStr(x) == x # NoStr /\ x # ""

\* a or b
OrStr(a, b) == IF TruthyStr(a) THEN a ELSE b

----------------------------------------------------------------------------
(* Payloads of the directory API, drawn from small pools *)

\* chart titles: "ab", "Ac", "b"
ChartTitlePool == {<<1, 2>>, <<11, 3>>, <<2>>}

\* a url that is not a string (a JSON number): truthy, cannot be sliced
BadUrl == "<int>"

Candidate(id, title, titleOriginal, url, originalUrl) ==
    [id |-> id, title |-> title, title_original |-> titleOriginal,
     url |-> url, originalUrl |-> originalUrl]

\* search results: titles "AB", "ab", "acc", "accc", none
CandidatePool ==
    { Candidate(1, <<11, 12>>, <<>>, "u1", NoStr),
      Candidate(2, <<1, 2>>, <<>>, NoStr, "u2"),
      Candidate(1, <<1, 3, 3>>, <<>>, "", "u1"),
      Candidate(2, <<1, 3, 3, 3>>, <<>>, "u2", NoStr),
      Candidate(1, <<>>, <<>>, "u1", NoStr),
      Candidate(2, <<1, 3, 3, 3>>, <<11, 12>>, NoStr, "u1") }

SeqsUpTo(S, n) == UNION {[1..k -> S] : k \in 0..n}

\* the candidates the responses of a whole run are made of
RunCandidatePool ==
    { Candidate(1, <<11, 12>>, <<>>, "u1", NoStr),
      Candidate(2, <<1, 3, 3>>, <<>>, NoStr, NoStr),
      Candidate(0, <<11, 12>>, <<>>, NoStr, "u2"),
      Candidate(None, <<1, 2>>, <<>>, BadUrl, NoStr) }

\* a search response: status "ok" (2xx, JSON object) or "error" (transport
\* error, non-2xx, undecodable or wrongly-typed body); the result list sits
\* under "feeds" or under "results"
SearchResponsesOf(lists) ==
    {[status |-> "error", key |-> "feeds", list |-> <<>>]}
    \cup [status : {"ok"}, key : {"feeds", "results"}, list : lists]

SearchResponses == SearchResponsesOf(SeqsUpTo(CandidatePool, MaxResults))

\* the search responses of a whole run: no result, or one candidate
RunSearchResponses ==
    SearchResponsesOf({<<>>} \cup {<<c>> : c \in RunCandidatePool})

\* the "feed" member of a detail response
Feed(kind, id, title, url, originalUrl) ==
    [kind |-> kind, id |-> id, title |-> title, url |-> url,
     originalUrl |-> originalUrl]

\* no "feed" member, null, [] or {}
NoFeed == Feed("none", None, NoStr, NoStr, NoStr)

\* a truthy "feed" member that is no JSON object (a non-empty list, a string)
BadFeed == Feed("bad", None, NoStr, NoStr, NoStr)

FeedPool ==
    { Feed("dict", 1, "t1", "u1", "u2"),
      Feed("dict", 1, "t2", NoStr, NoStr),
      Feed("dict", 2, "t1", "", "u1"),
      Feed("dict", 0, "t1", "u1", NoStr),
      Feed("dict", None, "t2", "u2", NoStr),
      NoFeed, BadFeed }

DetailResponses ==
    {[status |-> "error", feed |-> NoFeed]} \cup [status : {"ok"}, feed : FeedPool]

\* a duration as JSON carries it: an integer, true (a bool), a string, a
\* float, or null / missing
Dur(type, v) == [type |-> type, v |-> v]

Episode(title, duration) == [title |-> title, duration |-> duration]

EpisodePool ==
    { Episode("e1", Dur("int", 600)),
      Episode("e2", Dur("int", 0)),
      Episode("e3", Dur("int", 900)),
      Episode(NoStr, Dur("int", 601)),
      Episode("e1", Dur("int", 0 - 5)),
      Episode("e2", Dur("null", 0)),
      Episode("e3", Dur("str", 600)),
      Episode("e1", Dur("float", 600)),
      Episode("e2", Dur("bool", 1)) }

\* an episodes response; "error" also covers items that are not JSON objects
EpisodeResponsesOf(lists) ==
    {[status |-> "error", items |-> <<>>]} \cup [status : {"ok"}, items : lists]

EpisodeResponses == EpisodeResponsesOf(SeqsUpTo(EpisodePool, MaxEpisodes))

\* the episode responses of a whole run
RunEpisodeResponses ==
    EpisodeResponsesOf({ <<>>,
                         <<Episode("e1", Dur("int", 600))>>,
                         <<Episode("e2", Dur("int", 0)),
                           Episode("e1", Dur("int", 900))>> })

----------------------------------------------------------------------------
(* search_byterm, search_bytitle: the fuzzy selection *)

\* the acceptance threshold 0.4
MinRatio == <<4, 10>>

\* best_match = None, best_ratio = 0
NoMatch == [idx |-> 0, ratio |-> <<0, 1>>]

\* candidate_title of search_byterm: title_original or title
TermTitle(res) == IF res.title_original # <<>> THEN res.title_original ELSE res.title

\* candidate_title of search_bytitle
TitleTitle(feed) == feed.title

\* ScanStep with `ratio >= best_ratio`: the last of the tied candidates wins
ScanStepLastWins(best, query, candidateTitle, i) ==
    IF candidateTitle = <<>> THEN best
    ELSE LET ratio == Ratio(Lower(query), Lower(candidateTitle))
         IN  IF RatioGE(ratio, best.ratio) THEN [idx |-> i, ratio |-> ratio]
             ELSE best

\* one pass of the for loop: skip a candidate without title, keep the best
\* so far unless this ratio is strictly greater
ScanStep(best, query, candidateTitle, i) ==
    IF candidateTitle = <<>> THEN best
    ELSE LET ratio == Ratio(Lower(query), Lower(candidateTitle))
         IN  IF RatioGT(ratio, best.ratio) THEN [idx |-> i, ratio |-> ratio]
             ELSE best

RECURSIVE Scan(_, _, _, _)
Scan(query, candidateTitles, i, best) ==
    IF i > Len(candidateTitles) THEN best
    ELSE Scan(query, candidateTitles, i + 1,
              ScanStep(best, query, candidateTitles[i], i))

\* Accept without the threshold: `if best_match: return best_match`
AcceptAnyMatch(best) == IF best.idx # 0 THEN best ELSE NoMatch

\* `if best_match and best_ratio >= 0.4: return best_match`, else None
Accept(best) == IF best.idx # 0 /\ RatioGE(best.ratio, MinRatio) THEN best ELSE NoMatch

\* best_match / best_ratio of search_byterm after its loop (NoMatch when the
\* request failed or the list is empty)
best_byterm(query, resp) ==
    IF resp.status # "ok" \/ resp.list = <<>> THEN NoMatch
    ELSE Scan(query, [i \in 1..Len(resp.list) |-> TermTitle(resp.list[i])],
              1, NoMatch)

\* best_match / best_ratio of search_bytitle, which reads "feeds" only
best_bytitle(query, resp) ==
    IF resp.status # "ok" \/ resp.key # "feeds" \/ resp.list = <<>> THEN NoMatch
    ELSE Scan(query, [i \in 1..Len(resp.list) |-> TitleTitle(resp.list[i])],
              1, NoMatch)

\* search_byterm(query) on a response: the accepted match (index into the
\* result list and its ratio) or NoMatch
search_byterm(query, resp) == Accept(best_byterm(query, resp))

\* search_bytitle(query) on a response
search_bytitle(query, resp) == Accept(best_bytitle(query, resp))

\* the fallback taken whatever search_byterm returned
FallsBackAlways(termMatch) == TRUE

\* search_podcast_combined: whether the fallback to search/bytitle is taken
\* after search_byterm returned termMatch
FallsBackToTitle(termMatch) == termMatch.idx = 0

----------------------------------------------------------------------------
(* get_full_podcast_details_by_feed_id / _by_feed_url *)

\* what either function returns for a response: data["feed"] if truthy, else None
DetailOf(resp) ==
    IF resp.status = "ok" /\ resp.feed.kind # "none" THEN resp.feed ELSE NoFeed

\* `if candidate_feed_id:` : the lookup by id is made
LooksUpById(cand) == TruthyId(cand.id)

\* candidate.get("url") or candidate.get("originalUrl")
FeedUrlFromCandidate(cand) == OrStr(cand.url, cand.originalUrl)

\* the lookup by url made whenever the candidate carries a url
LooksUpByUrlAlways(cand, byId) == TruthyStr(FeedUrlFromCandidate(cand))

\* `if not full_details:` and `if feed_url_from_candidate:` : the lookup by
\* url is made after the lookup by id gave byId
LooksUpByUrl(cand, byId) ==
    byId.kind = "none" /\ TruthyStr(FeedUrlFromCandidate(cand))

----------------------------------------------------------------------------
(* get_latest_episode_info *)

\* `duration and isinstance(duration, int) and duration > 0`; a JSON true is
\* the int 1 to isinstance
ValidDuration(d) == d.type \in {"int", "bool"} /\ d.v > 0

RECURSIVE TotalDuration(_, _)
TotalDuration(items, i) ==
    IF i > Len(items) THEN 0
    ELSE (IF ValidDuration(items[i].duration) THEN items[i].duration.v ELSE 0)
         + TotalDuration(items, i + 1)

ValidEpisodeCount(items) ==
    Cardinality({i \in 1..Len(items) : ValidDuration(items[i].duration)})

\* int(total_duration / valid_episode_count), or None
AverageDuration(items) ==
    IF ValidEpisodeCount(items) > 0
    THEN TotalDuration(items, 1) \div ValidEpisodeCount(items)
    ELSE None

\* the title of the first episode with a valid duration
FirstValidEpisodeTitle(items) ==
    IF ValidEpisodeCount(items) = 0 THEN NoStr
    ELSE items[CHOOSE i \in 1..Len(items) :
                 /\ ValidDuration(items[i].duration)
                 /\ \A j \in 1..(i - 1) : ~ValidDuration(items[j].duration)].title

\* items[0].get("title")
LatestEpisodeTitle(items) == items[1].title

\* a failed fetch reported as an average of zero and an empty title
ZeroStatsOnError(resp) ==
    IF resp.status # "ok" THEN [avg |-> 0, latest |-> ""]
    ELSE IF resp.items = <<>> THEN [avg |-> None, latest |-> NoStr]
    ELSE [avg |-> AverageDuration(resp.items),
          latest |-> LatestEpisodeTitle(resp.items)]

\* the pair (average_duration, latest_episode_title) returned
get_latest_episode_info(resp) ==
    IF resp.status # "ok" \/ resp.items = <<>>
    THEN [avg |-> None, latest |-> NoStr]
    ELSE [avg |-> AverageDuration(resp.items),
          latest |-> LatestEpisodeTitle(resp.items)]

----------------------------------------------------------------------------
(* The Podcasts table *)

\* the row keyed by the id of the search candidate
RowKeyedByCandidate(details, cand, stats) ==
    [podcast_id |-> cand.id,
     title |-> details.title,
     feed_url |-> IF TruthyStr(details.url) THEN details.url ELSE cand.url,
     original_url |-> IF TruthyStr(details.originalUrl) THEN details.originalUrl
                      ELSE cand.originalUrl,
     avg_duration_last_10 |-> stats.avg,
     latest_episode_title |-> stats.latest]

\* the row the INSERT binds: columns from full_details, the two statistics,
\* and the candidate's url / originalUrl where full_details has none
\* (title stands for the columns copied unchanged from full_details)
Row(details, cand, stats) ==
    [podcast_id |-> details.id,
     title |-> details.title,
     feed_url |-> IF TruthyStr(details.url) THEN details.url ELSE cand.url,
     original_url |-> IF TruthyStr(details.originalUrl) THEN details.originalUrl
                      ELSE cand.originalUrl,
     avg_duration_last_10 |-> stats.avg,
     latest_episode_title |-> stats.latest]

\* INSERT OR IGNORE: a row already stored under the key is kept
InsertOrIgnore(tbl, row) ==
    IF \E r \in tbl : r.podcast_id = row.podcast_id THEN tbl ELSE tbl \cup {row}

\* INSERT OR REPLACE: podcast_id is the primary key
InsertOrReplace(tbl, row) ==
    {r \in tbl : r.podcast_id # row.podcast_id} \cup {row}

\* AfterWrite without the rollback: the executed insert stays
AfterWriteNoRollback(tbl, row, outcome) ==
    IF outcome = "execute_error" THEN tbl ELSE InsertOrReplace(tbl, row)

\* the table after the try block of the write: "ok" executes and commits;
\* "execute_error" fails in cursor.execute; "commit_error" fails in
\* conn.commit() and the except clause rolls the insert back
AfterWrite(tbl, row, outcome) ==
    LET executed == IF outcome = "execute_error" THEN tbl
                    ELSE InsertOrReplace(tbl, row)
    IN  IF outcome = "ok" THEN executed ELSE tbl

----------------------------------------------------------------------------
(* update_all_podcast_details: the state of one run *)

VARIABLES
    pc,            \* where the run is
    conn,          \* "none" (conn = None), "open", "closed"
    opens,         \* sqlite3.connect calls that returned a connection
    closes,        \* conn.close() calls
    drops,         \* times the Podcasts table was dropped and recreated
    table,         \* committed rows of Podcasts
    titles,        \* the list read from Top100Lists
    idx,           \* processed_count: titles[idx] is being processed
    candidate,     \* result of search_podcast_combined
    full_details,  \* full_details
    stats,         \* (avg_dur_10, latest_title)
    ending,        \* how the run left the try block
    \* history of the processing of the current title
    calls,         \* external operations invoked, in order
    search,        \* the search call just made: strategy, response, best, match
    termMatch,     \* what search_byterm returned
    byId,          \* what get_full_podcast_details_by_feed_id returned
    byUrl,         \* what get_full_podcast_details_by_feed_url returned
    episodes,      \* the response get_latest_episode_info just read
    failed,        \* stages of this title that failed
    tableAtStart,  \* the table when this title's processing began
    \* history of the run
    latest,        \* per podcast_id, the payload of the last committed write
    searched,      \* titles for which a search was attempted
    \* the module and its process
    environ,       \* PODCASTINDEX_API_KEY and PODCASTINDEX_API_SECRET of the process
    API_KEY,       \* the module global, "unbound" before its assignment
    API_SECRET     \* the module global, "unbound" before its assignment

vars == <<pc, conn, opens, closes, drops, table, titles, idx, candidate,
          full_details, stats, ending, calls, search, termMatch, byId, byUrl,
          episodes, failed, tableAtStart, latest, searched, environ, API_KEY,
          API_SECRET>>

globals == <<environ, API_KEY, API_SECRET>>

run == <<conn, opens, closes, drops, titles, globals>>

NoCandidate == Candidate(None, <<>>, <<>>, NoStr, NoStr)

NoStats == [avg |-> None, latest |-> NoStr]

NoRow == Row(NoFeed, NoCandidate, NoStats)

NoSearch ==
    [strategy |-> "none",
     resp |-> [status |-> "error", key |-> "feeds", list |-> <<>>],
     best |-> NoMatch, match |-> NoMatch]

NoEpisodes == [status |-> "none", items |-> <<>>]

\* ids a row can be keyed by
FeedIds == {f.id : f \in {g \in FeedPool : TruthyId(g.id)}}

\* a row left in Podcasts by an earlier run
PriorRow == Row(Feed("dict", 2, "t2", "u2", "u2"), NoCandidate, [avg |-> 750, latest |-> "e3"])

\* lists of distinct chart titles (SELECT DISTINCT title)
TitleLists ==
    {ts \in SeqsUpTo(ChartTitlePool, MaxTitles) :
        \A i, j \in 1..Len(ts) : i # j => ts[i] # ts[j]}

\* both credentials set and read into the globals
Loaded ==
    /\ environ = [key |-> "k1", secret |-> "s1"]
    /\ API_KEY = environ.key
    /\ API_SECRET = environ.secret

Init ==
    /\ pc = "connect"
    /\ conn = "none"
    /\ opens = 0
    /\ closes = 0
    /\ drops = 0
    /\ table \in {{}, {PriorRow}}
    /\ titles = <<>>
    /\ idx = 0
    /\ candidate = NoCandidate
    /\ full_details = NoFeed
    /\ stats = NoStats
    /\ ending = "running"
    /\ calls = <<>>
    /\ search = NoSearch
    /\ termMatch = NoMatch
    /\ byId = NoFeed
    /\ byUrl = NoFeed
    /\ episodes = NoEpisodes
    /\ failed = {}
    /\ tableAtStart = table
    /\ latest = [id \in FeedIds |-> NoRow]
    /\ searched = {}
    /\ Loaded

\* the per-title locals and history as a new iteration finds them
FreshTitle ==
    /\ candidate' = NoCandidate
    /\ full_details' = NoFeed
    /\ stats' = NoStats
    /\ calls' = <<>>
    /\ search' = NoSearch
    /\ termMatch' = NoMatch
    /\ byId' = NoFeed
    /\ byUrl' = NoFeed
    /\ episodes' = NoEpisodes
    /\ failed' = {}
    /\ tableAtStart' = table

\* leave the try block: an exception reached the outer handlers, or `return`
Leave(how) ==
    /\ pc' = "finally"
    /\ ending' = how

\* conn = sqlite3.connect('podcasts.db')
Connect ==
    /\ pc = "connect"
    /\ \E ok \in BOOLEAN :
         IF ok
         THEN /\ conn' = "open"
              /\ opens' = opens + 1
              /\ pc' = "create"
              /\ UNCHANGED ending
         ELSE /\ Leave("db_error")
              /\ UNCHANGED <<conn, opens>>
    /\ UNCHANGED <<closes, drops, table, titles, idx, candidate, full_details,
                   stats, calls, search, termMatch, byId, byUrl, episodes,
                   failed, tableAtStart, latest, searched, globals>>

\* "drop_error": DROP TABLE raises (the database is locked or unreadable);
\* "create_error": DROP ran, CREATE TABLE or the commit raises
DropCreateOutcomes == {"ok", "drop_error", "create_error"}

\* CREATE TABLE IF NOT EXISTS without the DROP: the stored rows stay
KeepRows(tbl, outcome) == tbl

\* the rows of Podcasts after DROP TABLE IF EXISTS / CREATE TABLE: none once
\* the DROP ran (it is not undone when the CREATE fails)
Recreated(tbl, outcome) == IF outcome = "drop_error" THEN tbl ELSE {}

\* DROP TABLE IF EXISTS Podcasts; CREATE TABLE Podcasts; commit
DropCreate ==
    /\ pc = "create"
    /\ \E outcome \in DropCreateOutcomes :
         /\ table' = Recreated(table, outcome)
         /\ IF outcome = "ok"
            THEN /\ drops' = drops + 1
                 /\ pc' = "read"
                 /\ UNCHANGED ending
            ELSE /\ Leave("db_error")
                 /\ UNCHANGED drops
    /\ UNCHANGED <<conn, opens, closes, titles, idx, candidate, full_details,
                   stats, calls, search, termMatch, byId, byUrl, episodes,
                   failed, tableAtStart, latest, searched, globals>>

\* SELECT DISTINCT title FROM Top100Lists
ReadTitles ==
    /\ pc = "read"
    /\ \/ \E ts \in TitleLists :
            /\ titles' = ts
            /\ pc' = "loop"
            /\ UNCHANGED ending
       \/ /\ Leave("no_chart_table")
          /\ UNCHANGED titles
       \/ /\ Leave("db_error")
          /\ UNCHANGED titles
    /\ UNCHANGED <<conn, opens, closes, drops, table, idx, candidate,
                   full_details, stats, calls, search, termMatch, byId, byUrl,
                   episodes, failed, tableAtStart, latest, searched, globals>>

\* for title in titles: the next iteration, or the end of the loop
NextTitle ==
    /\ pc = "loop"
    /\ IF idx < Len(titles)
       THEN /\ idx' = idx + 1
            /\ pc' = "byterm"
            /\ FreshTitle
            /\ UNCHANGED ending
       ELSE /\ Leave("complete")
            /\ search' = NoSearch
            /\ UNCHANGED <<idx, candidate, full_details, stats, calls,
                           termMatch, byId, byUrl, episodes, failed,
                           tableAtStart>>
    /\ UNCHANGED <<run, table, latest, searched>>

----------------------------------------------------------------------------
(* One title: search, details, episode statistics, write *)

\* steps 3 and later of the loop body once full_details is settled:
\* "episodes" when there are details with an id, "loop" when the title is
\* given up (no details, or details without id), "raise" when
\* full_details.get fails on a truthy value that is no dict
AfterDetails(details) ==
    CASE details.kind = "none" -> [pc |-> "loop", failed |-> {"detail"}]
      [] details.kind = "bad" -> [pc |-> "raise", failed |-> {"raised"}]
      [] OTHER -> IF TruthyId(details.id)
                  THEN [pc |-> "episodes", failed |-> {}]
                  ELSE [pc |-> "loop", failed |-> {"no_id"}]

\* a lookup by id that is made again when it returned nothing
RetryById(cand, details) ==
    IF details.kind = "none" /\ LooksUpById(cand)
    THEN [pc |-> "byid", failed |-> {}]
    ELSE IF LooksUpByUrl(cand, details) THEN [pc |-> "byurl", failed |-> {}]
    ELSE AfterDetails(details)

\* step 2 after the lookup by id returned details (NoFeed when not made)
AfterById(cand, details) ==
    IF LooksUpByUrl(cand, details) THEN [pc |-> "byurl", failed |-> {}]
    ELSE AfterDetails(details)

\* step 2 for an accepted candidate
AfterCandidate(cand) ==
    IF LooksUpById(cand) THEN [pc |-> "byid", failed |-> {}]
    ELSE AfterById(cand, NoFeed)

\* continue at the step computed above
Goto(step) ==
    /\ failed' = failed \cup step.failed
    /\ IF step.pc = "raise" THEN Leave("escaped")
       ELSE pc' = step.pc /\ UNCHANGED ending

\* search_byterm(title), first call of search_podcast_combined
SearchByTermOn(responses) ==
    /\ pc = "byterm"
    /\ \E resp \in responses :
         LET m == search_byterm(titles[idx], resp)
         IN  /\ search' = [strategy |-> "byterm", resp |-> resp,
                            best |-> best_byterm(titles[idx], resp), match |-> m]
             /\ termMatch' = m
             /\ IF FallsBackToTitle(m)
                THEN /\ pc' = "bytitle"
                     /\ UNCHANGED <<candidate, failed, ending>>
                ELSE /\ candidate' = resp.list[m.idx]
                     /\ Goto(AfterCandidate(resp.list[m.idx]))
    /\ calls' = Append(calls, "byterm")
    /\ searched' = searched \cup {idx}
    /\ UNCHANGED <<run, table, idx, full_details, stats, byId, byUrl, episodes,
                   tableAtStart, latest>>

\* search_bytitle(title), the fallback of search_podcast_combined
SearchByTitleOn(responses) ==
    /\ pc = "bytitle"
    /\ \E resp \in responses :
         LET m == search_bytitle(titles[idx], resp)
         IN  /\ search' = [strategy |-> "bytitle", resp |-> resp,
                            best |-> best_bytitle(titles[idx], resp), match |-> m]
             /\ IF m.idx = 0
                THEN /\ Goto([pc |-> "loop", failed |-> {"resolve"}])
                     /\ UNCHANGED candidate
                ELSE /\ candidate' = resp.list[m.idx]
                     /\ Goto(AfterCandidate(resp.list[m.idx]))
    /\ calls' = Append(calls, "bytitle")
    /\ UNCHANGED <<run, table, idx, full_details, stats, termMatch, byId, byUrl,
                   episodes, tableAtStart, latest, searched>>

\* get_full_podcast_details_by_feed_id(candidate_feed_id)
DetailById ==
    /\ pc = "byid"
    /\ \E resp \in DetailResponses :
         /\ byId' = DetailOf(resp)
         /\ full_details' = DetailOf(resp)
         /\ Goto(AfterById(candidate, DetailOf(resp)))
    /\ calls' = Append(calls, "byid")
    /\ search' = NoSearch
    /\ UNCHANGED <<run, table, idx, candidate, stats, termMatch, byUrl,
                   episodes, tableAtStart, latest, searched>>

\* get_full_podcast_details_by_feed_url(feed_url_from_candidate); feed_url[:50]
\* is evaluated before the try block and raises TypeError on a non-string
DetailByUrl ==
    /\ pc = "byurl"
    /\ IF FeedUrlFromCandidate(candidate) = BadUrl
       THEN /\ Goto([pc |-> "raise", failed |-> {"raised"}])
            /\ UNCHANGED <<byUrl, full_details>>
       ELSE \E resp \in DetailResponses :
              /\ byUrl' = DetailOf(resp)
              /\ full_details' = DetailOf(resp)
              /\ Goto(AfterDetails(DetailOf(resp)))
    /\ calls' = Append(calls, "byurl")
    /\ search' = NoSearch
    /\ UNCHANGED <<run, table, idx, candidate, stats, termMatch, byId,
                   episodes, tableAtStart, latest, searched>>

\* avg_dur_10, latest_title = get_latest_episode_info(feed_id)
EpisodeInfoOn(responses) ==
    /\ pc = "episodes"
    /\ \E resp \in responses :
         /\ episodes' = resp
         /\ stats' = get_latest_episode_info(resp)
         /\ failed' = failed \cup (IF resp.status = "ok" THEN {} ELSE {"stats"})
    /\ pc' = "write"
    /\ calls' = Append(calls, "episodes")
    /\ search' = NoSearch
    /\ UNCHANGED <<run, table, idx, candidate, full_details, ending,
                   termMatch, byId, byUrl, tableAtStart, latest, searched>>

WriteOutcomes == {"ok", "execute_error", "commit_error", "rollback_error"}

\* INSERT OR REPLACE INTO Podcasts ...; conn.commit(); on sqlite3.Error
\* conn.rollback(), whose own failure reaches the outer handler
Write ==
    /\ pc = "write"
    /\ \E outcome \in WriteOutcomes :
         LET row == Row(full_details, candidate, stats)
         IN  /\ table' = AfterWrite(table, row, outcome)
             /\ latest' = IF outcome = "ok"
                          THEN [latest EXCEPT ![row.podcast_id] = row]
                          ELSE latest
             /\ failed' = failed \cup (IF outcome = "ok" THEN {} ELSE {"write"})
             /\ IF outcome = "rollback_error" THEN Leave("db_error")
                ELSE pc' = "loop" /\ UNCHANGED ending
    /\ calls' = Append(calls, "write")
    /\ episodes' = NoEpisodes
    /\ UNCHANGED <<run, idx, candidate, full_details, stats, search, termMatch,
                   byId, byUrl, tableAtStart, searched>>

\* the close at the end of the try block instead of in finally
ClosesOnCompletionOnly(c) == c = "open" /\ ending = "complete"

\* whether the finally clause closes: `if conn:`
ClosesConn(c) == c = "open"

\* finally: if conn: conn.close()
Close ==
    /\ pc = "finally"
    /\ IF ClosesConn(conn)
       THEN conn' = "closed" /\ closes' = closes + 1
       ELSE UNCHANGED <<conn, closes>>
    /\ pc' = "done"
    /\ search' = NoSearch
    /\ UNCHANGED <<opens, drops, table, titles, idx, candidate, full_details,
                   stats, ending, calls, termMatch, byId, byUrl,
                   episodes, failed, tableAtStart, latest, searched, globals>>

\* the calls of a whole run
SearchByTerm == SearchByTermOn(RunSearchResponses)

SearchByTitle == SearchByTitleOn(RunSearchResponses)

EpisodeInfo == EpisodeInfoOn(RunEpisodeResponses)

Next ==
    \/ Connect
    \/ DropCreate
    \/ ReadTitles
    \/ NextTitle
    \/ SearchByTerm
    \/ SearchByTitle
    \/ DetailById
    \/ DetailByUrl
    \/ EpisodeInfo
    \/ Write
    \/ Close

Spec == Init /\ [][Next]_vars

----------------------------------------------------------------------------
(* search_podcast_combined alone: one title, every response of the pools *)

SearchInit ==
    /\ pc = "byterm"
    /\ conn = "open"
    /\ opens = 1
    /\ closes = 0
    /\ drops = 1
    /\ table = {}
    /\ titles \in {<<q>> : q \in ChartTitlePool}
    /\ idx = 1
    /\ candidate = NoCandidate
    /\ full_details = NoFeed
    /\ stats = NoStats
    /\ ending = "running"
    /\ calls = <<>>
    /\ search = NoSearch
    /\ termMatch = NoMatch
    /\ byId = NoFeed
    /\ byUrl = NoFeed
    /\ episodes = NoEpisodes
    /\ failed = {}
    /\ tableAtStart = {}
    /\ latest = [id \in FeedIds |-> NoRow]
    /\ searched = {}
    /\ Loaded

TermSearch == SearchByTermOn(SearchResponses)

TitleSearch == SearchByTitleOn(SearchResponses)

SearchNext == TermSearch \/ TitleSearch

SearchSpec == SearchInit /\ [][SearchNext]_vars

----------------------------------------------------------------------------
(* get_latest_episode_info alone: every episode list of the pool *)

StatsInit ==
    /\ pc = "episodes"
    /\ conn = "open"
    /\ opens = 1
    /\ closes = 0
    /\ drops = 1
    /\ table = {}
    /\ titles = <<<<1, 2>>>>
    /\ idx = 1
    /\ candidate = Candidate(1, <<11, 12>>, <<>>, "u1", NoStr)
    /\ full_details = Feed("dict", 1, "t1", "u1", "u2")
    /\ stats = NoStats
    /\ ending = "running"
    /\ calls = <<"byterm", "byid">>
    /\ search = NoSearch
    /\ termMatch = [idx |-> 1, ratio |-> <<1, 1>>]
    /\ byId = full_details
    /\ byUrl = NoFeed
    /\ episodes = NoEpisodes
    /\ failed = {}
    /\ tableAtStart = {}
    /\ latest = [id \in FeedIds |-> NoRow]
    /\ searched = {1}
    /\ Loaded

EpisodeStats == EpisodeInfoOn(EpisodeResponses)

StatsNext == EpisodeStats

StatsSpec == StatsInit /\ [][StatsNext]_vars

----------------------------------------------------------------------------
(* the module body: imports, credentials, the call of the run *)

\* the names the import statements bind
ModuleImports == {"sqlite3", "requests", "time", "hashlib", "difflib", "json"}

\* values of an environment variable; NoStr: the variable is not set
EnvValues == {NoStr, "", "k1", "k2", "s1", "s2"}

StartupInit ==
    /\ pc = "startup"
    /\ environ \in [key : EnvValues, secret : EnvValues]
    /\ API_KEY = "unbound"
    /\ API_SECRET = "unbound"
    /\ conn = "none"
    /\ opens = 0
    /\ closes = 0
    /\ drops = 0
    /\ table \in {{}, {PriorRow}}
    /\ titles = <<>>
    /\ idx = 0
    /\ candidate = NoCandidate
    /\ full_details = NoFeed
    /\ stats = NoStats
    /\ ending = "running"
    /\ calls = <<>>
    /\ search = NoSearch
    /\ termMatch = NoMatch
    /\ byId = NoFeed
    /\ byUrl = NoFeed
    /\ episodes = NoEpisodes
    /\ failed = {}
    /\ tableAtStart = table
    /\ latest = [id \in FeedIds |-> NoRow]
    /\ searched = {}

\* the module body down to the call of update_all_podcast_details:
\* `os.environ.get` looks the name `os` up among the module's names and
\* raises NameError when no import bound it; then both globals are read
\* and exit(1) ends the process when either is falsy
Startup ==
    /\ pc = "startup"
    /\ IF "os" \notin ModuleImports
       THEN /\ pc' = "done"
            /\ ending' = "name_error"
            /\ UNCHANGED <<API_KEY, API_SECRET>>
       ELSE /\ API_KEY' = environ.key
            /\ API_SECRET' = environ.secret
            /\ IF ~TruthyStr(environ.key) \/ ~TruthyStr(environ.secret)
               THEN pc' = "done" /\ ending' = "exit"
               ELSE pc' = "connect" /\ UNCHANGED ending
    /\ UNCHANGED <<environ, conn, opens, closes, drops, table, titles, idx,
                   candidate, full_details, stats, calls, search, termMatch,
                   byId, byUrl, episodes, failed, tableAtStart, latest,
                   searched>>

StartupNext == Startup

StartupSpec == StartupInit /\ [][StartupNext]_vars

----------------------------------------------------------------------------
(* Properties of the search (SearchSpec) *)

\* the title the strategy of the search call just made scores a candidate by
ScoredTitle(c) == IF search.strategy = "byterm" THEN TermTitle(c) ELSE TitleTitle(c)

\* the similarity of a candidate of the response just read to the chart title
Score(c) == Ratio(Lower(titles[idx]), Lower(ScoredTitle(c)))

\* the positions of the response just read that carry a title
Titled == {j \in 1..Len(search.resp.list) : ScoredTitle(search.resp.list[j]) # <<>>}

\* C1: a candidate returned by search_podcast_combined scores at least 0.4
\* against the chart title, and a strategy whose every candidate scores
\* below 0.4 yields nothing
C1_ReturnedCandidateMeetsThreshold ==
    /\ candidate # NoCandidate =>
         /\ search.match.idx \in 1..Len(search.resp.list)
         /\ candidate = search.resp.list[search.match.idx]
         /\ RatioGE(Score(candidate), MinRatio)
    /\ (search.strategy # "none"
        /\ \A j \in Titled : ~RatioGE(Score(search.resp.list[j]), MinRatio))
         => search.match = NoMatch

\* the title search returned a candidate scoring exactly 0.4, next to one
\* scoring below
C1_Witness ==
    /\ search.strategy = "bytitle"
    /\ candidate # NoCandidate
    /\ Score(candidate) = <<2, 5>>
    /\ \E j \in Titled : ~RatioGE(Score(search.resp.list[j]), MinRatio)

\* C3: the candidate a strategy selects from a result list has the highest
\* score of the list, and every candidate before it scores strictly less
\* (of tied candidates the earliest is selected)
C3_SelectsHighestEarliest ==
    search.best.idx # 0 =>
        /\ search.best.idx \in Titled
        /\ search.best.ratio = Score(search.resp.list[search.best.idx])
        /\ \A j \in Titled :
             /\ RatioGE(search.best.ratio, Score(search.resp.list[j]))
             /\ j < search.best.idx =>
                  RatioGT(search.best.ratio, Score(search.resp.list[j]))

\* two different candidates tie for the highest score and the first is selected
C3_Witness ==
    /\ Len(search.resp.list) = 2
    /\ search.resp.list[1] # search.resp.list[2]
    /\ Titled = {1, 2}
    /\ Score(search.resp.list[1]) = Score(search.resp.list[2])
    /\ search.best.idx = 1
    /\ candidate = search.resp.list[1]

----------------------------------------------------------------------------
(* Properties of the episode statistics (StatsSpec) *)

\* the durations of a list that are positive integers
PositiveIntegers(items) ==
    {i \in 1..Len(items) : items[i].duration.type = "int" /\ items[i].duration.v > 0}

RECURSIVE SumOver(_, _)
SumOver(items, S) ==
    IF S = {} THEN 0
    ELSE LET i == CHOOSE x \in S : TRUE
         IN  items[i].duration.v + SumOver(items, S \ {i})

\* the integer-truncated mean of the positive integer durations, or None
MeanOfPositiveIntegers(items) ==
    IF PositiveIntegers(items) = {} THEN None
    ELSE SumOver(items, PositiveIntegers(items)) \div Cardinality(PositiveIntegers(items))

\* C5: for a successfully fetched episode list the average returned is the
\* integer-truncated mean of exactly the durations that are positive
\* integers, and is absent (never zero) when no episode qualifies
C5_AverageOfPositiveIntegerDurations ==
    (pc = "write" /\ episodes.status = "ok") =>
        stats.avg = MeanOfPositiveIntegers(episodes.items)

\* C6: for a successfully fetched episode list the latest-episode title is
\* the title of the first item, whatever its duration and whether or not
\* any episode counts for the average; it is absent when the list is empty
C6_LatestTitleIsFirstItem ==
    (pc = "write" /\ episodes.status = "ok") =>
        stats.latest = IF episodes.items = <<>> THEN NoStr
                       ELSE episodes.items[1].title

\* the first item has a title and a zero duration, a later one is valid
C6_Witness ==
    /\ pc = "write"
    /\ episodes.status = "ok"
    /\ Len(episodes.items) = 3
    /\ episodes.items[1].duration = Dur("int", 0)
    /\ ValidDuration(episodes.items[2].duration)
    /\ episodes.items[2].title # episodes.items[1].title
    /\ stats.latest = episodes.items[1].title
    /\ stats.latest # NoStr

----------------------------------------------------------------------------
(* Properties of a whole run (Spec) *)

Called(op) == \E i \in 1..Len(calls) : calls[i] = op

\* the title being processed is past its search
SearchOver == calls # <<>> /\ pc \notin {"byterm", "bytitle"}

\* C2: within one title the title search is invoked only after the term
\* search, and (once the search is over) it was invoked exactly when the
\* term search yielded no accepted candidate
C2_TitleSearchIffTermSearchFailed ==
    /\ \A i \in 1..Len(calls) :
         calls[i] = "bytitle" => (i = 2 /\ calls[1] = "byterm")
    /\ \A i \in 1..Len(calls) : calls[i] = "byterm" => i = 1
    /\ SearchOver => (Called("bytitle") <=> termMatch = NoMatch)

\* the term search accepted a candidate and the title went on to its write
\* without a title search
C2_Witness ==
    /\ termMatch # NoMatch
    /\ Called("write")
    /\ ~Called("bytitle")

\* the title being processed is past its detail lookups
DetailOver == candidate # NoCandidate /\ pc \notin {"byid", "byurl"}

\* the details of the path that succeeded
UsedDetail == IF byId.kind # "none" THEN byId ELSE byUrl

\* C4: the lookup by url is made exactly when the lookup by id gave no usable
\* detail (not made, failed, or no feed payload) and the candidate carries a
\* url or original url; it is never made before or after a successful lookup
\* by id, and the details used, and the row written, are those of the one
\* path that succeeded
C4_UrlLookupIffIdLookupFailed ==
    /\ \A i, j \in 1..Len(calls) :
         (calls[i] = "byurl" /\ calls[j] = "byid") => j < i
    /\ Called("byurl") => byId.kind = "none"
    /\ DetailOver =>
         /\ Called("byurl") <=>
              (byId.kind = "none" /\ TruthyStr(FeedUrlFromCandidate(candidate)))
         /\ Called("byid") <=> TruthyId(candidate.id)
         /\ full_details = UsedDetail
    /\ (Called("write") /\ "write" \notin failed) =>
         Row(UsedDetail, candidate, stats) \in table

\* the lookup by id failed, the lookup by url succeeded, and the row written
\* is built from the url-sourced details
C4_Witness ==
    /\ calls = <<"byterm", "byid", "byurl", "episodes", "write">>
    /\ byId = NoFeed
    /\ byUrl.kind = "dict"
    /\ "write" \notin failed
    /\ Row(byUrl, candidate, stats) \in table

\* C7: after the table is recreated, it holds at most one row per podcast_id,
\* and that row is, column for column, the payload of the latest committed
\* write for that id
C7_OneRowPerFeedIdLatestPayload ==
    drops > 0 =>
        /\ \A r \in table : r.podcast_id \in FeedIds
        /\ \A id \in FeedIds :
             {r \in table : r.podcast_id = id}
               = IF latest[id] = NoRow THEN {} ELSE {latest[id]}

\* the second title wrote a different payload under the id the first wrote
C7_Witness ==
    /\ idx = 2
    /\ Called("write")
    /\ "write" \notin failed
    /\ \E r \in tableAtStart :
         /\ r.podcast_id = full_details.id
         /\ r # Row(full_details, candidate, stats)
    /\ Cardinality({r \in table : r.podcast_id = full_details.id}) = 1
    /\ Row(full_details, candidate, stats) \in table

\* C8 as stated: a title of which any stage failed, the episode statistics
\* included, leaves no row
C8_AnyFailedStageLeavesNoRow ==
    failed # {} => table = tableAtStart

\* C8: a title whose search, detail lookup or write failed (or whose
\* details carry no id, or whose processing raised) leaves the table as it
\* was when its processing began
C8_FailedTitleLeavesNoRow ==
    failed \cap {"resolve", "detail", "no_id", "write", "raised"} # {}
        => table = tableAtStart

\* the write of the second title failed in commit and its row is not stored
C8_Witness ==
    /\ idx = 2
    /\ Called("write")
    /\ "write" \in failed
    /\ tableAtStart # {}
    /\ table = tableAtStart
    /\ Row(full_details, candidate, stats) \notin table

\* C9: a run that read the title list and met no database failure has
\* attempted a search for every title when it ends
C9_EveryTitleSearched ==
    (pc = "done" /\ ending \notin {"db_error", "no_chart_table"})
        => searched = 1..Len(titles)

\* C10: the connection is opened at most once and closed at most once; a run
\* that opened it has closed it exactly once when it ends, however it ends;
\* every database operation runs on the open connection
C10_ConnectionClosedExactlyOnce ==
    /\ opens \in {0, 1}
    /\ closes <= opens
    /\ pc = "done" => (closes = opens /\ conn = IF opens = 1 THEN "closed" ELSE "none")
    /\ pc \in {"create", "read", "loop", "byterm", "bytitle", "byid", "byurl",
               "episodes", "write"} => conn = "open"
    /\ conn = "closed" => pc = "done"

\* a run ended by an exception that no handler caught closed its connection
C10_Witness ==
    /\ pc = "done"
    /\ ending = "escaped"
    /\ opens = 1
    /\ closes = 1
    /\ conn = "closed"

----------------------------------------------------------------------------
(* Properties of the table recreation (Spec) *)

\* the rows of the table were all written, and committed last under their
\* id, during this run
OnlyRowsOfThisRun == \A r \in table : r.podcast_id \in FeedIds /\ latest[r.podcast_id] = r

\* C11 as stated: every run drops and recreates the table exactly once, and
\* at its end the table holds only rows written during the run
C11_EveryRunRecreatesOnce ==
    pc = "done" => (drops = 1 /\ OnlyRowsOfThisRun)

\* C11: the table is dropped and recreated at most once, and exactly once
\* before the title list is read and before any write; in a run that got
\* that far the table holds only rows written during the run (none when
\* the chart table is missing or no write was committed)
C11_RecreatedOnceBeforeReadAndWrites ==
    /\ drops \in {0, 1}
    /\ pc \in {"read", "loop", "byterm", "bytitle", "byid", "byurl", "episodes",
               "write"} => drops = 1
    /\ (titles # <<>> \/ calls # <<>>) => drops = 1
    /\ drops = 0 => (ending \in {"running", "db_error"} /\ latest = [id \in FeedIds |-> NoRow])
    /\ drops = 1 =>
         /\ OnlyRowsOfThisRun
         /\ PriorRow \notin table
         /\ ending = "no_chart_table" => table = {}
         /\ latest = [id \in FeedIds |-> NoRow] => table = {}

\* a run that found a row of an earlier run and no chart table ends with an
\* empty Podcasts table
C11_Witness ==
    /\ pc = "done"
    /\ ending = "no_chart_table"
    /\ tableAtStart = {PriorRow}
    /\ drops = 1
    /\ table = {}

----------------------------------------------------------------------------
(* Properties of a failed episode fetch (Spec) *)

\* the rows stored under the id of the details of the current title
RowsOfCurrentFeed == {r \in table : r.podcast_id = full_details.id}

\* C12: when the episode fetch fails, both statistics are absent and the
\* title goes on to its write; a write that commits stores the row of the
\* feed with both statistics absent
C12_FailedEpisodeFetchStillWrites ==
    "stats" \in failed =>
        /\ stats = NoStats
        /\ pc = "write" \/ Called("write")
        /\ (Called("write") /\ "write" \notin failed) =>
             /\ RowsOfCurrentFeed = {Row(full_details, candidate, NoStats)}
             /\ \A r \in RowsOfCurrentFeed :
                  /\ r.avg_duration_last_10 = None
                  /\ r.latest_episode_title = NoStr

\* the episode fetch failed and the row of the feed was committed without
\* statistics
C12_Witness ==
    /\ "stats" \in failed
    /\ calls = <<"byterm", "byid", "episodes", "write">>
    /\ "write" \notin failed
    /\ \E r \in table :
         /\ r.podcast_id = full_details.id
         /\ r.title = full_details.title
         /\ r.avg_duration_last_10 = None
         /\ r.latest_episode_title = NoStr

----------------------------------------------------------------------------
(* Properties of the module startup (StartupSpec) *)

\* an environment variable that is set to a non-empty value
Present(v) == v # NoStr /\ v # ""

\* the process ended with no connection opened, no table dropped, no row
\* changed and no request issued
AbortedBeforeAnyWork ==
    /\ pc = "done"
    /\ conn = "none"
    /\ opens = 0
    /\ drops = 0
    /\ table = tableAtStart
    /\ calls = <<>>
    /\ searched = {}

\* C13: once the module body has run, a credential that is not set has
\* aborted the process before any work, and two credentials that are set
\* have brought it to the call of update_all_podcast_details
C13_CredentialsDecideStartup ==
    pc # "startup" =>
        /\ (environ.key = NoStr \/ environ.secret = NoStr) => AbortedBeforeAnyWork
        /\ (Present(environ.key) /\ Present(environ.secret)) => pc = "connect"

----------------------------------------------------------------------------
(* Properties of a failed write (Spec) *)

\* the upserts invoked for the current title
WriteCalls == {i \in 1..Len(calls) : calls[i] = "write"}

\* C14: a write that failed with a database error left the table as it was
\* when the title began (its own insert undone, the rows of earlier titles
\* untouched), was invoked once, and the run went on to the loop head for the
\* next title
C14_FailedWriteIsolatedAndLoopAdvances ==
    "write" \in failed =>
        /\ table = tableAtStart
        /\ Cardinality(WriteCalls) = 1
        /\ pc = "loop" \/ ending = "complete"

----------------------------------------------------------------------------
(* No retry (Spec) *)

ExternalOperations == {"byterm", "bytitle", "byid", "byurl", "episodes", "write"}

\* how often an operation occurs in a list of calls
TimesCalled(cs, op) == Cardinality({i \in 1..Len(cs) : cs[i] = op})

\* the step begins the processing of a title
BeginsTitle == pc = "loop" /\ pc' = "byterm"

\* C15: every step of a run leaves each external operation invoked at most
\* once for the current title, whatever the calls returned; the list of
\* calls only grows by the operation just invoked until the next title
\* begins; the position in the title list only moves forward by one, when a
\* title begins, and the titles of the list are distinct: no title is
\* processed twice
C15_NoRetry ==
    [][/\ \A op \in ExternalOperations : TimesCalled(calls', op) <= 1
       /\ calls' # calls =>
            \/ BeginsTitle /\ calls' = <<>>
            \/ \E op \in ExternalOperations : calls' = Append(calls, op)
       /\ BeginsTitle => idx' = idx + 1
       /\ idx' # idx => BeginsTitle
       /\ \A i, j \in 1..Len(titles') : titles'[i] = titles'[j] => i = j
      ]_vars

\* the second title of a run went through all six operations, the first
\* attempt of the search and of the detail lookup having failed
C15_Witness ==
    /\ idx = 2
    /\ calls = <<"byterm", "bytitle", "byid", "byurl", "episodes", "write">>
    /\ termMatch = NoMatch
    /\ byId = NoFeed
    /\ pc = "loop"

----------------------------------------------------------------------------
(* The key of the stored rows (Spec) *)

\* the rows the current title added to or changed in the table
RowsOfThisTitle == table \ tableAtStart

\* C16: every stored row has a podcast_id that is neither null nor zero;
\* the episode fetch and the write are reached only with details that carry
\* such an id; the rows a title stores are keyed by the id of its details,
\* and a committed write has stored the row under that id, whatever the id
\* of the candidate
C16_RowsKeyedByDetailId ==
    /\ \A r \in table : TruthyId(r.podcast_id)
    /\ (pc \in {"episodes", "write"} \/ Called("episodes") \/ Called("write"))
         => (full_details.kind = "dict" /\ TruthyId(full_details.id))
    /\ \A r \in RowsOfThisTitle : r.podcast_id = full_details.id
    /\ (Called("write") /\ "write" \notin failed)
         => \E r \in table : /\ r.podcast_id = full_details.id
                             /\ r = latest[full_details.id]

\* the details came from the lookup by url for a candidate whose id is zero,
\* and the committed row is keyed by the id of the details
C16_Witness ==
    /\ Called("byurl")
    /\ Called("write")
    /\ "write" \notin failed
    /\ candidate.id = 0
    /\ TruthyId(full_details.id)
    /\ \E r \in RowsOfThisTitle : r.podcast_id = full_details.id

====
